---------------------------- MODULE Spec2Model ----------------------------
(***************************************************************************)
(* Model of the conversation engine of the English conversation practice   *)
(* application: ConversationHistory, OpenAITutor, OllamaTutor and          *)
(* AITutorService (ai_tutor.py) driven by the presentation layers          *)
(* (main.py, main_simple.py, web_app.py).                                  *)
(*                                                                         *)
(* A Python str is a sequence of one-character strings, so that lower(),   *)
(* strip(), split() and the `in` substring test are computed, not assumed. *)
(* A datetime is a record [sec, usec]; its isoformat() text is a sequence  *)
(* <<sec>> or <<sec, usec>> (the fraction is printed only when non-zero).  *)
(***************************************************************************)
EXTENDS Integers, Sequences, FiniteSets, TLC

(***************************************************************************)
(* Bounds of the model.                                                    *)
(***************************************************************************)
\* number of user turns the presentation layer sends in one run
MaxSends == 2

\* number of add_message calls made on a ConversationHistory in one run
MaxTurns == 4

(***************************************************************************)
(* Python string operations used by the engine.                            *)
(***************************************************************************)
UpperCase ==
    <<"A","B","C","D","E","F","G","H","I","J","K","L","M",
      "N","O","P","Q","R","S","T","U","V","W","X","Y","Z">>

LowerCase ==
    <<"a","b","c","d","e","f","g","h","i","j","k","l","m",
      "n","o","p","q","r","s","t","u","v","w","x","y","z">>

\* str.lower() on one character
LowerChar(c) ==
    IF \E i \in 1..Len(UpperCase) : UpperCase[i] = c
    THEN LowerCase[CHOOSE i \in 1..Len(UpperCase) : UpperCase[i] = c]
    ELSE c

\* str.lower(): every character lower-cased, taken as a sequence of its own
Lower(s) == SubSeq([i \in 1..Len(s) |-> LowerChar(s[i])], 1, Len(s))

\* str.isspace() on one character
IsSpace(c) == c \in {" ", "\n", "\t", "\r"}

\* str.strip()
Strip(s) ==
    LET keep == {i \in 1..Len(s) : ~IsSpace(s[i])}
    IN  IF keep = {} THEN <<>>
        ELSE LET lo == CHOOSE i \in keep : \A j \in keep : i <= j
                 hi == CHOOSE i \in keep : \A j \in keep : j <= i
             IN  SubSeq(s, lo, hi)

\* str.split(): the maximal runs of non-whitespace characters, in order
SplitWords(s) ==
    LET positions == [i \in 1..Len(s) |-> i]
        starts    == SelectSeq(positions,
                         LAMBDA i : ~IsSpace(s[i]) /\ (i = 1 \/ IsSpace(s[i - 1])))
        ends      == SelectSeq(positions,
                         LAMBDA i : ~IsSpace(s[i]) /\ (i = Len(s) \/ IsSpace(s[i + 1])))
    IN  [k \in 1..Len(starts) |-> SubSeq(s, starts[k], ends[k])]

RECURSIVE SplitOnFrom(_, _, _, _, _)
SplitOnFrom(s, sep, i, cur, out) ==
    IF i > Len(s)
    THEN Append(out, cur)
    ELSE IF s[i] = sep
         THEN SplitOnFrom(s, sep, i + 1, <<>>, Append(out, cur))
         ELSE SplitOnFrom(s, sep, i + 1, Append(cur, s[i]), out)

\* str.split(sep) for a one-character separator: empty segments are kept
SplitOn(s, sep) == SplitOnFrom(s, sep, 1, <<>>, <<>>)

\* the `sub in s` substring test
Contains(s, sub) ==
    \E i \in 1..(Len(s) - Len(sub) + 1) : SubSeq(s, i, i + Len(sub) - 1) = sub

\* str.startswith(prefix)
StartsWith(s, prefix) ==
    Len(s) >= Len(prefix) /\ SubSeq(s, 1, Len(prefix)) = prefix

\* the elements of a sequence, as a set
Range(f) == {f[i] : i \in DOMAIN f}

\* list[-n:] for n > 0
LastN(seq, n) ==
    IF Len(seq) <= n THEN seq ELSE SubSeq(seq, Len(seq) - n + 1, Len(seq))


(***************************************************************************)
(* Inputs of the model.                                                    *)
(***************************************************************************)
\* the request threads / handlers of the presentation layer that may run at once
Threads == {1, 2}

\* the clients of the presentation layer (browser sessions, the desktop user)
Clients == {"c1", "c2"}

UserLoveCooking == <<"I"," ","l","o","v","e"," ","c","o","o","k","i","n","g">>

UserBadDay == <<"b","a","d"," ","d","a","y">>

\* what the user types
UserTexts == {UserLoveCooking, UserBadDay}

RespNiceFriend ==
    <<"N","i","c","e"," ","t","o"," ","m","e","e","t"," ","y","o","u"," ","f","r","i","e","n","d">>

RespNice == <<"n","i","c","e"," ","t","o"," ","m","e","e","t"," ","y","o","u">>

RespDoYouCook == <<"D","o"," ","y","o","u"," ","c","o","o","k","?">>

\* the texts the backend generates
Responses == {RespNiceFriend, RespNice, RespDoYouCook}

\* the usage.total_tokens a successful backend call reports
Usages == {7}

\* what a backend call comes back with: a failure (exception, timeout, HTTP
\* status other than 200) or a generated text with its token usage
BackendOutcomes ==
    {[ok |-> FALSE, text |-> <<>>, usage |-> 0]}
    \cup {[ok |-> TRUE, text |-> r, usage |-> u] : r \in Responses, u \in Usages}

\* a session_start text that datetime.fromisoformat rejects
MalformedIso == <<>>

\* the snapshot files a load may be pointed at
LoadKinds == {"saved_now", "earlier_session", "bad_session_start", "unreadable"}

UserCookingTravel ==
    <<"I"," ","l","o","v","e"," ","c","o","o","k","i","n","g"," ","a","n","d"," ","t","r",
      "a","v","e","l">>

UserFavoriteRecipe ==
    <<"W","h","a","t","'","s"," ","y","o","u","r"," ","f","a","v","o","r","i","t","e"," ",
      "r","e","c","i","p","e","?">>

UserGoodBadBadBad ==
    <<"g","o","o","d"," ","b","a","d"," ","b","a","d"," ","b","a","d">>

RespElevenQuestions ==
    <<"a","?"," ","b","?"," ","c","?"," ","d","?"," ","e","?"," ","f","?"," ","g","?"," ",
      "h","?"," ","i","?"," ","j","?"," ","k","?">>

\* the text of a backend answer with no "response" in it
RespEmpty == <<>>



(***************************************************************************)
(* Texts of the program.                                                   *)
(***************************************************************************)
interest_keywords ==
    <<
       [interest |-> "cooking",
        keywords |-> <<<<"c","o","o","k">>,
                     <<"r","e","c","i","p","e">>,
                     <<"f","o","o","d">>,
                     <<"k","i","t","c","h","e","n">>,
                     <<"m","e","a","l">>>>],
       [interest |-> "travel",
        keywords |-> <<<<"t","r","a","v","e","l">>,
                     <<"t","r","i","p">>,
                     <<"v","a","c","a","t","i","o","n">>,
                     <<"c","o","u","n","t","r","y">>,
                     <<"v","i","s","i","t">>>>],
       [interest |-> "sports",
        keywords |-> <<<<"s","p","o","r","t">>,
                     <<"e","x","e","r","c","i","s","e">>,
                     <<"g","y","m">>,
                     <<"f","o","o","t","b","a","l","l">>,
                     <<"s","o","c","c","e","r">>,
                     <<"b","a","s","k","e","t","b","a","l","l">>>>],
       [interest |-> "music",
        keywords |-> <<<<"m","u","s","i","c">>,
                     <<"s","o","n","g">>,
                     <<"b","a","n","d">>,
                     <<"c","o","n","c","e","r","t">>,
                     <<"g","u","i","t","a","r">>,
                     <<"p","i","a","n","o">>>>],
       [interest |-> "work",
        keywords |-> <<<<"w","o","r","k">>,
                     <<"j","o","b">>,
                     <<"c","a","r","e","e","r">>,
                     <<"o","f","f","i","c","e">>,
                     <<"c","o","l","l","e","a","g","u","e">>,
                     <<"b","o","s","s">>>>],
       [interest |-> "family",
        keywords |-> <<<<"f","a","m","i","l","y">>,
                     <<"p","a","r","e","n","t","s">>,
                     <<"s","i","b","l","i","n","g","s">>,
                     <<"c","h","i","l","d","r","e","n">>,
                     <<"k","i","d","s">>>>],
       [interest |-> "movies",
        keywords |-> <<<<"m","o","v","i","e">>,
                     <<"f","i","l","m">>,
                     <<"c","i","n","e","m","a">>,
                     <<"a","c","t","o","r">>,
                     <<"d","i","r","e","c","t","o","r">>>>],
       [interest |-> "books",
        keywords |-> <<<<"b","o","o","k">>,
                     <<"r","e","a","d">>,
                     <<"n","o","v","e","l">>,
                     <<"a","u","t","h","o","r">>,
                     <<"l","i","b","r","a","r","y">>>>],
       [interest |-> "technology",
        keywords |-> <<<<"c","o","m","p","u","t","e","r">>,
                     <<"p","h","o","n","e">>,
                     <<"a","p","p">>,
                     <<"i","n","t","e","r","n","e","t">>,
                     <<"s","o","f","t","w","a","r","e">>>>]
    >>

positive_words ==
    <<<<"h","a","p","p","y">>,
      <<"g","r","e","a","t">>,
      <<"g","o","o","d">>,
      <<"l","o","v","e">>,
      <<"a","m","a","z","i","n","g">>,
      <<"w","o","n","d","e","r","f","u","l">>,
      <<"e","x","c","i","t","e","d">>>>

negative_words ==
    <<<<"s","a","d">>,
      <<"b","a","d">>,
      <<"t","e","r","r","i","b","l","e">>,
      <<"h","a","t","e">>,
      <<"a","w","f","u","l">>,
      <<"d","i","s","a","p","p","o","i","n","t","e","d">>,
      <<"w","o","r","r","i","e","d">>>>

OpenAISystemPrompt ==
    <<"Y","o","u"," ","a","r","e"," ","a"," ","c","u","r","i","o","u","s"," ","a","n","d",
      " ","e","n","g","a","g","i","n","g"," ","c","o","n","v","e","r","s","a","t","i","o",
      "n"," ","p","a","r","t","n","e","r"," ","w","h","o"," ","l","o","v","e","s"," ","m",
      "e","e","t","i","n","g"," ","n","e","w"," ","p","e","o","p","l","e"," ","a","n","d",
      " ","l","e","a","r","n","i","n","g"," ","a","b","o","u","t"," ","t","h","e","i","r",
      " ","l","i","v","e","s","."," ","\n","\n","Y","o","u","r"," ","p","e","r","s","o","n",
      "a","l","i","t","y",":","\n","-"," ","F","r","i","e","n","d","l","y",","," ","e","n",
      "t","h","u","s","i","a","s","t","i","c",","," ","a","n","d"," ","g","e","n","u","i",
      "n","e","l","y"," ","i","n","t","e","r","e","s","t","e","d"," ","i","n"," ","t","h",
      "e"," ","p","e","r","s","o","n"," ","y","o","u","'","r","e"," ","t","a","l","k","i",
      "n","g"," ","t","o","\n","-"," ","Y","o","u"," ","r","e","m","e","m","b","e","r"," ",
      "w","h","a","t"," ","p","e","o","p","l","e"," ","t","e","l","l"," ","y","o","u"," ",
      "a","n","d"," ","r","e","f","e","r"," ","b","a","c","k"," ","t","o"," ","p","r","e",
      "v","i","o","u","s"," ","c","o","n","v","e","r","s","a","t","i","o","n","s","\n","-",
      " ","Y","o","u"," ","a","s","k"," ","t","h","o","u","g","h","t","f","u","l"," ","f",
      "o","l","l","o","w","-","u","p"," ","q","u","e","s","t","i","o","n","s"," ","b","a",
      "s","e","d"," ","o","n"," ","w","h","a","t"," ","s","o","m","e","o","n","e"," ","s",
      "h","a","r","e","s","\n","-"," ","Y","o","u"," ","s","h","a","r","e"," ","y","o","u",
      "r"," ","o","w","n"," ","t","h","o","u","g","h","t","s"," ","a","n","d"," ","r","e",
      "a","c","t","i","o","n","s"," ","n","a","t","u","r","a","l","l","y",","," ","l","i",
      "k","e"," ","a"," ","r","e","a","l"," ","f","r","i","e","n","d"," ","w","o","u","l",
      "d","\n","-"," ","Y","o","u","'","r","e"," ","s","p","o","n","t","a","n","e","o","u",
      "s"," ","a","n","d"," ","c","r","e","a","t","i","v","e"," ","i","n"," ","y","o","u",
      "r"," ","r","e","s","p","o","n","s","e","s"," ","-"," ","a","v","o","i","d"," ","r",
      "e","p","e","t","i","t","i","v","e"," ","p","a","t","t","e","r","n","s","\n","-"," ",
      "Y","o","u"," ","e","x","p","r","e","s","s"," ","e","m","o","t","i","o","n","s"," ",
      "a","n","d"," ","e","m","p","a","t","h","y"," ","a","p","p","r","o","p","r","i","a",
      "t","e","l","y","\n","\n","C","o","n","v","e","r","s","a","t","i","o","n"," ","s","t",
      "y","l","e",":","\n","-"," ","A","v","o","i","d"," ","r","e","p","e","t","i","t","i",
      "v","e"," ","q","u","e","s","t","i","o","n","s"," ","l","i","k","e"," ","\"","H","o",
      "w"," ","a","r","e"," ","y","o","u","?","\""," ","o","r"," ","\"","W","h","a","t"," ",
      "d","i","d"," ","y","o","u"," ","d","o"," ","t","o","d","a","y","?","\""," ","i","f",
      " ","y","o","u","'","v","e"," ","a","s","k","e","d"," ","r","e","c","e","n","t","l",
      "y","\n","-"," ","R","e","m","e","m","b","e","r"," ","t","o","p","i","c","s"," ","d",
      "i","s","c","u","s","s","e","d"," ","a","n","d"," ","b","u","i","l","d"," ","o","n",
      " ","t","h","e","m"," ","(","\"","Y","o","u"," ","m","e","n","t","i","o","n","e","d",
      " ","y","o","u"," ","l","o","v","e"," ","c","o","o","k","i","n","g"," ","-"," ","h",
      "a","v","e"," ","y","o","u"," ","t","r","i","e","d"," ","a","n","y"," ","n","e","w",
      " ","r","e","c","i","p","e","s","?","\"",")","\n","-"," ","A","s","k"," ","s","p","e",
      "c","i","f","i","c",","," ","p","e","r","s","o","n","a","l","i","z","e","d"," ","q",
      "u","e","s","t","i","o","n","s"," ","b","a","s","e","d"," ","o","n"," ","w","h","a",
      "t"," ","y","o","u"," ","k","n","o","w"," ","a","b","o","u","t"," ","t","h","e"," ",
      "p","e","r","s","o","n","\n","-"," ","N","a","t","u","r","a","l","l","y"," ","t","r",
      "a","n","s","i","t","i","o","n"," ","b","e","t","w","e","e","n"," ","t","o","p","i",
      "c","s"," ","l","i","k","e"," ","a"," ","r","e","a","l"," ","c","o","n","v","e","r",
      "s","a","t","i","o","n","\n","-"," ","S","h","o","w"," ","g","e","n","u","i","n","e",
      " ","i","n","t","e","r","e","s","t"," ","a","n","d"," ","c","u","r","i","o","s","i",
      "t","y"," ","a","b","o","u","t"," ","t","h","e","i","r"," ","e","x","p","e","r","i",
      "e","n","c","e","s",","," ","t","h","o","u","g","h","t","s",","," ","a","n","d"," ",
      "f","e","e","l","i","n","g","s","\n","-"," ","K","e","e","p"," ","r","e","s","p","o",
      "n","s","e","s"," ","c","o","n","v","e","r","s","a","t","i","o","n","a","l"," ","a",
      "n","d"," ","n","a","t","u","r","a","l"," ","(","1","-","3"," ","s","e","n","t","e",
      "n","c","e","s"," ","u","s","u","a","l","l","y",")","\n","-"," ","B","e"," ","e","n",
      "c","o","u","r","a","g","i","n","g"," ","b","u","t"," ","n","o","t"," ","o","v","e",
      "r","l","y"," ","f","o","r","m","a","l"," ","o","r"," ","t","e","a","c","h","e","r",
      "-","l","i","k","e","\n","\n","R","e","m","e","m","b","e","r",":"," ","Y","o","u","'",
      "r","e"," ","n","o","t"," ","j","u","s","t"," ","a"," ","l","a","n","g","u","a","g",
      "e"," ","t","u","t","o","r"," ","-"," ","y","o","u","'","r","e"," ","a"," ","c","o",
      "n","v","e","r","s","a","t","i","o","n"," ","p","a","r","t","n","e","r"," ","w","h",
      "o"," ","w","a","n","t","s"," ","t","o"," ","g","e","t"," ","t","o"," ","k","n","o",
      "w"," ","t","h","i","s"," ","p","e","r","s","o","n"," ","b","e","t","t","e","r"," ",
      "t","h","r","o","u","g","h"," ","m","e","a","n","i","n","g","f","u","l"," ","d","i",
      "a","l","o","g","u","e",".">>

OllamaSystemPrompt ==
    <<"Y","o","u"," ","a","r","e"," ","a"," ","c","u","r","i","o","u","s"," ","a","n","d",
      " ","e","n","g","a","g","i","n","g"," ","c","o","n","v","e","r","s","a","t","i","o",
      "n"," ","p","a","r","t","n","e","r","."," ","A","v","o","i","d"," ","r","e","p","e",
      "t","i","t","i","v","e"," ","q","u","e","s","t","i","o","n","s","."," ","R","e","m",
      "e","m","b","e","r"," ","p","r","e","v","i","o","u","s"," ","t","o","p","i","c","s",
      "."," ","A","s","k"," ","f","o","l","l","o","w","-","u","p"," ","q","u","e","s","t",
      "i","o","n","s"," ","b","a","s","e","d"," ","o","n"," ","u","s","e","r","'","s"," ",
      "i","n","t","e","r","e","s","t","s","."," ","B","e"," ","c","r","e","a","t","i","v",
      "e"," ","a","n","d"," ","s","p","o","n","t","a","n","e","o","u","s"," ","i","n"," ",
      "y","o","u","r"," ","r","e","s","p","o","n","s","e","s","."," ","S","h","o","w"," ",
      "g","e","n","u","i","n","e"," ","i","n","t","e","r","e","s","t"," ","i","n"," ","t",
      "h","e"," ","p","e","r","s","o","n"," ","y","o","u","'","r","e"," ","t","a","l","k",
      "i","n","g"," ","t","o",".">>

FallbackCooking ==
    <<"S","p","e","a","k","i","n","g"," ","o","f"," ","c","o","o","k","i","n","g",","," ",
      "h","a","v","e"," ","y","o","u"," ","d","i","s","c","o","v","e","r","e","d"," ","a",
      "n","y"," ","i","n","t","e","r","e","s","t","i","n","g"," ","f","l","a","v","o","r",
      " ","c","o","m","b","i","n","a","t","i","o","n","s"," ","l","a","t","e","l","y","?">>

FallbackTravel ==
    <<"Y","o","u","r"," ","t","r","a","v","e","l"," ","e","x","p","e","r","i","e","n","c",
      "e","s"," ","s","o","u","n","d"," ","f","a","s","c","i","n","a","t","i","n","g","!",
      " ","W","h","a","t","'","s"," ","b","e","e","n"," ","y","o","u","r"," ","m","o","s",
      "t"," ","m","e","m","o","r","a","b","l","e"," ","j","o","u","r","n","e","y"," ","s",
      "o"," ","f","a","r","?">>

FallbackMusic ==
    <<"I","'","m"," ","c","u","r","i","o","u","s"," ","a","b","o","u","t"," ","y","o","u",
      "r"," ","m","u","s","i","c"," ","t","a","s","t","e","."," ","W","h","a","t"," ","g",
      "e","n","r","e"," ","s","p","e","a","k","s"," ","t","o"," ","y","o","u","r"," ","s",
      "o","u","l","?">>

FallbacksPositive ==
    <<
      <<"Y","o","u","r"," ","e","n","t","h","u","s","i","a","s","m"," ","i","s"," ","c",
        "o","n","t","a","g","i","o","u","s","!"," ","W","h","a","t"," ","e","l","s","e",
        " ","b","r","i","n","g","s"," ","y","o","u"," ","j","o","y","?">>,
      <<"T","h","a","t"," ","s","o","u","n","d","s"," ","w","o","n","d","e","r","f","u",
        "l","!"," ","I","'","d"," ","l","o","v","e"," ","t","o"," ","h","e","a","r"," ",
        "m","o","r","e"," ","a","b","o","u","t"," ","w","h","a","t"," ","m","a","k","e",
        "s"," ","i","t"," ","s","p","e","c","i","a","l",".">>,
      <<"Y","o","u"," ","s","e","e","m"," ","r","e","a","l","l","y"," ","p","a","s","s",
        "i","o","n","a","t","e"," ","a","b","o","u","t"," ","t","h","i","s"," ","-"," ",
        "w","h","a","t"," ","g","o","t"," ","y","o","u"," ","i","n","t","e","r","e","s",
        "t","e","d"," ","i","n"," ","i","t","?">>
    >>

FallbacksNegative ==
    <<
      <<"T","h","a","t"," ","s","o","u","n","d","s"," ","c","h","a","l","l","e","n","g",
        "i","n","g","."," ","H","o","w"," ","a","r","e"," ","y","o","u"," ","d","e","a",
        "l","i","n","g"," ","w","i","t","h"," ","i","t","?">>,
      <<"I"," ","c","a","n"," ","u","n","d","e","r","s","t","a","n","d"," ","w","h","y",
        " ","t","h","a","t"," ","w","o","u","l","d"," ","b","e"," ","f","r","u","s","t",
        "r","a","t","i","n","g","."," ","W","h","a","t"," ","h","e","l","p","s"," ","y",
        "o","u"," ","c","o","p","e","?">>,
      <<"T","h","a","t"," ","m","u","s","t"," ","b","e"," ","t","o","u","g","h","."," ",
        "I","s"," ","t","h","e","r","e"," ","a","n","y","t","h","i","n","g"," ","p","o",
        "s","i","t","i","v","e"," ","y","o","u"," ","c","a","n"," ","t","a","k","e"," ",
        "f","r","o","m"," ","t","h","e"," ","e","x","p","e","r","i","e","n","c","e","?">>
    >>

FallbacksNeutral ==
    <<
      <<"T","h","a","t","'","s"," ","f","a","s","c","i","n","a","t","i","n","g","!"," ",
        "W","h","a","t","'","s"," ","t","h","e"," ","s","t","o","r","y"," ","b","e","h",
        "i","n","d"," ","t","h","a","t","?">>,
      <<"I","'","m"," ","i","n","t","r","i","g","u","e","d"," ","-"," ","w","h","a","t",
        "'","s"," ","y","o","u","r"," ","p","e","r","s","p","e","c","t","i","v","e"," ",
        "o","n"," ","t","h","i","s","?">>,
      <<"T","h","a","t","'","s"," ","a","n"," ","i","n","t","e","r","e","s","t","i","n",
        "g"," ","a","n","g","l","e","."," ","W","h","a","t"," ","l","e","d"," ","y","o",
        "u"," ","t","o"," ","t","h","a","t"," ","c","o","n","c","l","u","s","i","o","n",
        "?">>,
      <<"T","e","l","l"," ","m","e"," ","m","o","r","e"," ","a","b","o","u","t"," ","t",
        "h","a","t"," ","-"," ","I","'","m"," ","g","e","n","u","i","n","e","l","y"," ",
        "c","u","r","i","o","u","s",".">>
    >>

creative_fallbacks ==
    <<
      <<"T","h","a","t"," ","s","p","a","r","k","s"," ","m","y"," ","c","u","r","i","o",
        "s","i","t","y","!"," ","W","h","a","t","'","s"," ","t","h","e"," ","m","o","s",
        "t"," ","s","u","r","p","r","i","s","i","n","g"," ","t","h","i","n","g"," ","a",
        "b","o","u","t"," ","t","h","a","t","?">>,
      <<"F","a","s","c","i","n","a","t","i","n","g"," ","p","e","r","s","p","e","c","t",
        "i","v","e","!"," ","H","o","w"," ","d","i","d"," ","y","o","u"," ","c","o","m",
        "e"," ","t","o"," ","t","h","a","t"," ","r","e","a","l","i","z","a","t","i","o",
        "n","?">>,
      <<"T","h","a","t","'","s"," ","g","e","n","u","i","n","e","l","y"," ","i","n","t",
        "r","i","g","u","i","n","g"," ","-"," ","w","h","a","t","'","s"," ","t","h","e",
        " ","s","t","o","r","y"," ","b","e","h","i","n","d"," ","i","t","?">>,
      <<"I","'","m"," ","d","r","a","w","n"," ","t","o"," ","t","h","a","t"," ","t","o",
        "p","i","c","."," ","W","h","a","t"," ","a","s","p","e","c","t"," ","e","x","c",
        "i","t","e","s"," ","y","o","u"," ","m","o","s","t","?">>,
      <<"Y","o","u","r"," ","e","x","p","e","r","i","e","n","c","e"," ","s","o","u","n",
        "d","s"," ","u","n","i","q","u","e","."," ","W","h","a","t"," ","m","a","d","e",
        " ","i","t"," ","s","t","a","n","d"," ","o","u","t","?">>,
      <<"T","h","a","t","'","s"," ","t","h","o","u","g","h","t","-","p","r","o","v","o",
        "k","i","n","g","."," ","W","h","a","t"," ","u","n","e","x","p","e","c","t","e",
        "d"," ","l","e","s","s","o","n","s"," ","d","i","d"," ","y","o","u"," ","l","e",
        "a","r","n","?">>
    >>

DefaultResponse ==
    <<"I","'","m"," ","s","o","r","r","y",","," ","I","'","m"," ","h","a","v","i","n","g",
      " ","t","r","o","u","b","l","e"," ","c","o","n","n","e","c","t","i","n","g"," ","t",
      "o"," ","t","h","e"," ","A","I"," ","s","e","r","v","i","c","e"," ","r","i","g","h",
      "t"," ","n","o","w","."," ","C","o","u","l","d"," ","y","o","u"," ","t","r","y"," ",
      "a","g","a","i","n","?">>

(***************************************************************************)
(* datetime                                                                *)
(***************************************************************************)
\* isoformat() that prints whole seconds only, as strftime("%Y%m%d_%H%M%S") does
IsoFormat_WholeSeconds(dt) == <<dt.sec>>

\* datetime.isoformat(): the fraction of a second is printed only when non-zero
IsoFormat(dt) == IF dt.usec = 0 THEN <<dt.sec>> ELSE <<dt.sec, dt.usec>>

\* whether datetime.fromisoformat accepts the text
IsIsoFormat(s) == Len(s) \in {1, 2}

\* datetime.fromisoformat() of an accepted text
FromIsoFormat(s) ==
    IF Len(s) = 1 THEN [sec |-> s[1], usec |-> 0] ELSE [sec |-> s[1], usec |-> s[2]]

(***************************************************************************)
(* ConversationHistory                                                     *)
(***************************************************************************)
\* the size of the recent-questions window
RecentQuestionsCap == 10

\* ConversationHistory.__init__
NewHistory(clock) ==
    [messages            |-> <<>>,
     session_start       |-> clock,
     total_tokens        |-> 0,
     user_interests      |-> {},
     recent_questions    |-> <<>>,
     last_user_sentiment |-> "neutral"]

\* _extract_user_interests that stops at the first interest that matches
ExtractUserInterests_FirstMatch(interests, content) ==
    LET content_lower == Lower(content)
        matching == {j \in 1..Len(interest_keywords) :
                        \E k \in 1..Len(interest_keywords[j].keywords) :
                            Contains(content_lower, interest_keywords[j].keywords[k])}
    IN  IF matching = {} THEN interests
        ELSE interests \cup
             {interest_keywords[CHOOSE j \in matching : \A k \in matching : j <= k].interest}

\* _extract_user_interests that keeps only the interests of the latest turn
ExtractUserInterests_Latest(interests, content) ==
    LET content_lower == Lower(content)
    IN  {interest_keywords[i].interest : i \in
            {j \in 1..Len(interest_keywords) :
                \E k \in 1..Len(interest_keywords[j].keywords) :
                    Contains(content_lower, interest_keywords[j].keywords[k])}}

\* ConversationHistory._extract_user_interests
ExtractUserInterests(interests, content) ==
    LET content_lower == Lower(content)
    IN  interests \cup
        {interest_keywords[i].interest : i \in
            {j \in 1..Len(interest_keywords) :
                \E k \in 1..Len(interest_keywords[j].keywords) :
                    Contains(content_lower, interest_keywords[j].keywords[k])}}

\* _detect_sentiment that labels a tie of non-zero counts "mixed"
DetectSentiment_Mixed(content) ==
    LET content_lower  == Lower(content)
        positive_count == Cardinality({i \in 1..Len(positive_words) :
                                          Contains(content_lower, positive_words[i])})
        negative_count == Cardinality({i \in 1..Len(negative_words) :
                                          Contains(content_lower, negative_words[i])})
    IN  IF positive_count > negative_count THEN "positive"
        ELSE IF negative_count > positive_count THEN "negative"
        ELSE IF positive_count > 0 THEN "mixed"
        ELSE "neutral"

\* ConversationHistory._detect_sentiment
DetectSentiment(content) ==
    LET content_lower  == Lower(content)
        positive_count == Cardinality({i \in 1..Len(positive_words) :
                                          Contains(content_lower, positive_words[i])})
        negative_count == Cardinality({i \in 1..Len(negative_words) :
                                          Contains(content_lower, negative_words[i])})
    IN  IF positive_count > negative_count THEN "positive"
        ELSE IF negative_count > positive_count THEN "negative"
        ELSE "neutral"

\* [q.strip() + '?' for q in content.split('?') if q.strip()]
ExtractQuestions(content) ==
    LET segments == SplitOn(content, "?")
        kept     == SelectSeq(segments, LAMBDA q : Strip(q) # <<>>)
    IN  [i \in 1..Len(kept) |-> Strip(kept[i]) \o <<"?">>]

\* _track_ai_questions that trims the window before it appends
TrackAIQuestions_TrimFirst(recent_questions, content, clock) ==
    LET questions == IF Contains(content, <<"?">>) THEN ExtractQuestions(content) ELSE <<>>
        entries   == [i \in 1..Len(questions) |->
                         [question |-> Lower(questions[i]), timestamp |-> clock]]
    IN  LastN(recent_questions, RecentQuestionsCap) \o entries

\* _track_ai_questions that puts the new questions in front of the window
TrackAIQuestions_NewestFirst(recent_questions, content, clock) ==
    LET questions == IF Contains(content, <<"?">>) THEN ExtractQuestions(content) ELSE <<>>
        entries   == [i \in 1..Len(questions) |->
                         [question |-> Lower(questions[i]), timestamp |-> clock]]
    IN  LastN(entries \o recent_questions, RecentQuestionsCap)

\* ConversationHistory._track_ai_questions
TrackAIQuestions(recent_questions, content, clock) ==
    LET questions == IF Contains(content, <<"?">>) THEN ExtractQuestions(content) ELSE <<>>
        entries   == [i \in 1..Len(questions) |->
                         [question |-> Lower(questions[i]), timestamp |-> clock]]
    IN  LastN(recent_questions \o entries, RecentQuestionsCap)

\* _calculate_similarity that takes the sum of the two sizes for the union
CalculateSimilarity_SumOfSizes(text1, text2) ==
    LET words1 == Range(SplitWords(text1))
        words2 == Range(SplitWords(text2))
    IN  IF words1 = {} \/ words2 = {} THEN <<0, 1>>
        ELSE <<Cardinality(words1 \cap words2), Cardinality(words1) + Cardinality(words2)>>

\* ConversationHistory._calculate_similarity: the ratio <<|intersection|, |union|>>
CalculateSimilarity(text1, text2) ==
    LET words1 == Range(SplitWords(text1))
        words2 == Range(SplitWords(text2))
    IN  IF words1 = {} \/ words2 = {} THEN <<0, 1>>
        ELSE <<Cardinality(words1 \cap words2), Cardinality(words1 \cup words2)>>

\* similarity > percent / 100
Exceeds(similarity, percent) == similarity[1] * 100 > percent * similarity[2]

\* is_question_repetitive that compares the candidate as it is written
IsQuestionRepetitive_NoLower(h, new_question) ==
    \E i \in 1..Len(h.recent_questions) :
        Exceeds(CalculateSimilarity(new_question, h.recent_questions[i].question), 70)

\* ConversationHistory.is_question_repetitive
IsQuestionRepetitive(h, new_question) ==
    LET new_q_lower == Lower(new_question)
    IN  \E i \in 1..Len(h.recent_questions) :
            Exceeds(CalculateSimilarity(new_q_lower, h.recent_questions[i].question), 70)

\* add_message that tracks the questions of every turn, whatever its role
AddMessage_TracksEveryRole(h, role, content, clock) ==
    LET message == [role |-> role, content |-> content, timestamp |-> IsoFormat(clock)]
        appended == [h EXCEPT !.messages = Append(@, message),
                              !.recent_questions = TrackAIQuestions(@, content, clock)]
    IN  IF role = "user"
        THEN [appended EXCEPT !.user_interests = ExtractUserInterests(@, content),
                              !.last_user_sentiment = DetectSentiment(content)]
        ELSE appended

\* ConversationHistory.add_message
AddMessage(h, role, content, clock) ==
    LET message == [role |-> role, content |-> content, timestamp |-> IsoFormat(clock)]
        appended == [h EXCEPT !.messages = Append(@, message)]
    IN  IF role = "user"
        THEN [appended EXCEPT !.user_interests = ExtractUserInterests(@, content),
                              !.last_user_sentiment = DetectSentiment(content)]
        ELSE IF role = "assistant"
        THEN [appended EXCEPT !.recent_questions = TrackAIQuestions(@, content, clock)]
        ELSE appended

\* ConversationHistory.add_message from self.messages.append(message) on, for a
\* message dictionary that was built (and stamped) before
AppendStamped(h, message, clock) ==
    [AddMessage(h, message.role, message.content, clock)
        EXCEPT !.messages = Append(h.messages, message)]

\* Python's None; an Optional[int] that is given is <<n>>
None == <<>>

\* ConversationHistory.get_messages: new dictionaries are built from the stored
\* ones; `if limit:` is false for None and for 0
GetMessages(h, limit) ==
    LET messages == [i \in 1..Len(h.messages) |->
                        [role |-> h.messages[i].role, content |-> h.messages[i].content]]
    IN  IF limit # None /\ limit[1] # 0 THEN LastN(messages, limit[1]) ELSE messages

RECURSIVE Join(_, _)
\* sep.join(parts)
Join(parts, sep) ==
    IF parts = <<>> THEN <<>>
    ELSE IF Len(parts) = 1 THEN parts[1]
    ELSE parts[1] \o sep \o Join(Tail(parts), sep)

RECURSIVE Unique(_)
\* the elements of a list without repetition
Unique(seq) ==
    IF seq = <<>> THEN <<>>
    ELSE LET front == Unique(SubSeq(seq, 1, Len(seq) - 1))
             last  == seq[Len(seq)]
         IN  IF last \in Range(front) THEN front ELSE Append(front, last)

\* str.isalpha() on a lower-cased word
IsAlpha(w) == w # <<>> /\ \A i \in 1..Len(w) : w[i] \in Range(LowerCase)

RECURSIVE TopicsOf(_)
\* for each message, the first 2 words longer than 4 letters, in a row
TopicsOf(messages) ==
    IF messages = <<>> THEN <<>>
    ELSE LET words            == SplitWords(Lower(messages[Len(messages)].content))
             meaningful_words == SelectSeq(words, LAMBDA w : Len(w) > 4 /\ IsAlpha(w))
         IN  TopicsOf(SubSeq(messages, 1, Len(messages) - 1))
             \o SubSeq(meaningful_words, 1, IF Len(meaningful_words) < 2
                                            THEN Len(meaningful_words) ELSE 2)

\* ConversationHistory._get_recent_topics; list(set(topics)) comes in an order
\* of Python's choosing, taken here as the order of first occurrence
GetRecentTopics(h) ==
    IF Len(h.messages) < 2 THEN <<>>
    ELSE LastN(Unique(TopicsOf(LastN(h.messages, 6))), 5)

\* the interests as Python iterates the set: an order of its choosing, taken
\* here as the order of the keyword table. A name is one element of the text
InterestList(h) ==
    LET rows == SelectSeq(interest_keywords, LAMBDA row : row.interest \in h.user_interests)
    IN  [i \in 1..Len(rows) |-> <<rows[i].interest>>]

\* ConversationHistory.get_personalization_context. The literals of the
\* f-strings are single elements of the text
GetPersonalizationContext(h) ==
    LET interests_part ==
            IF h.user_interests # {}
            THEN << <<"User interests: ">> \o Join(InterestList(h), <<", ">>) >>
            ELSE <<>>
        mood_part ==
            IF h.last_user_sentiment # "neutral"
            THEN << <<"User mood: ", h.last_user_sentiment>> >>
            ELSE <<>>
        recent_topics == GetRecentTopics(h)
        topics_part ==
            IF recent_topics # <<>>
            THEN << <<"Recent topics discussed: ">> \o Join(recent_topics, <<", ">>) >>
            ELSE <<>>
    IN  Join(interests_part \o mood_part \o topics_part, <<" | ">>)

\* the conversation_data dictionary ConversationHistory.save_to_file writes
ConversationData(h, clock) ==
    [session_start |-> IsoFormat(h.session_start),
     session_end   |-> IsoFormat(clock),
     total_tokens  |-> h.total_tokens,
     message_count |-> Len(h.messages),
     messages      |-> h.messages]

\* dict.get(key, default)
DictGet(data, key, default) == IF key \in DOMAIN data THEN data[key] ELSE default

\* ConversationHistory.load_from_file once the file is read: the history it
\* leaves and the value it returns; the fields are assigned one by one, and
\* datetime.fromisoformat raises after messages and total_tokens are assigned
LoadFromData(h, data) ==
    LET assigned == [h EXCEPT !.messages = DictGet(data, "messages", <<>>),
                              !.total_tokens = DictGet(data, "total_tokens", 0)]
    IN  IF "session_start" \in DOMAIN data
        THEN IF IsIsoFormat(data.session_start)
             THEN [history |-> [assigned EXCEPT
                                   !.session_start = FromIsoFormat(data.session_start)],
                   returned |-> TRUE]
             ELSE [history |-> assigned, returned |-> FALSE]
        ELSE [history |-> assigned, returned |-> TRUE]

\* clear() that forgets to empty the recent-questions window
Clear_KeepsQuestions(h, clock) ==
    [messages            |-> <<>>,
     session_start       |-> clock,
     total_tokens        |-> 0,
     user_interests      |-> {},
     recent_questions    |-> h.recent_questions,
     last_user_sentiment |-> "neutral"]

\* ConversationHistory.clear
Clear(h, clock) ==
    [messages            |-> <<>>,
     session_start       |-> clock,
     total_tokens        |-> 0,
     user_interests      |-> {},
     recent_questions    |-> <<>>,
     last_user_sentiment |-> "neutral"]


(***************************************************************************)
(* State                                                                   *)
(***************************************************************************)
VARIABLES
    provider,              \* AITutorService.provider: which tutor was built
    conversation_history,  \* the tutor's ConversationHistory (one per process)
    now,                   \* the wall clock read by datetime.now()
    thread,                \* per thread: the get_response call it is running
    sends                  \* number of user turns sent so far

vars == <<provider, conversation_history, now, thread, sends>>

\* a thread that runs no get_response call
IdleThread == [pc |-> "idle", calls |-> 0, outcome |-> "none", result |-> <<>>]

(***************************************************************************)
(* OpenAITutor and OllamaTutor                                             *)
(***************************************************************************)
\* OpenAITutor._is_response_repetitive
IsResponseRepetitive(h, response) ==
    \/ /\ Contains(response, <<"?">>)
       /\ LET questions == ExtractQuestions(response)
          IN  \E i \in 1..Len(questions) : IsQuestionRepetitive(h, questions[i])
    \/ LET recent == SelectSeq(LastN(h.messages, 6), LAMBDA msg : msg.role = "assistant")
       IN  /\ Len(recent) >= 2
           /\ \E i \in 1..Len(recent) :
                  Exceeds(CalculateSimilarity(Lower(response), Lower(recent[i].content)), 60)

\* OpenAITutor._get_fallback_response: the texts random.choice may return
OpenAIFallbackResponses(h) ==
    IF h.user_interests # {} /\ "cooking" \in h.user_interests THEN {FallbackCooking}
    ELSE IF h.user_interests # {} /\ "travel" \in h.user_interests THEN {FallbackTravel}
    ELSE IF h.user_interests # {} /\ "music" \in h.user_interests THEN {FallbackMusic}
    ELSE IF h.last_user_sentiment = "positive" THEN Range(FallbacksPositive)
    ELSE IF h.last_user_sentiment = "negative" THEN Range(FallbacksNegative)
    ELSE Range(FallbacksNeutral)

\* OllamaTutor._get_fallback_response: the texts random.choice may return
OllamaFallbackResponses == Range(creative_fallbacks)

\* the state of the tutor right after construction: OpenAITutor.__init__ records
\* its system prompt, OllamaTutor.__init__ records nothing
NewTutorHistory(p, clock) ==
    IF p = "openai"
    THEN AddMessage(NewHistory(clock), "system", OpenAISystemPrompt, clock)
    ELSE NewHistory(clock)

\* the end of a get_response call that returns a canned fallback
ReturnFallback(t, r, fallbacks) ==
    /\ \E text \in fallbacks :
           thread' = [thread EXCEPT ![t] = [@ EXCEPT !.pc = "done",
                                                     !.outcome = "FALLBACK_USED",
                                                     !.result = text]]
    /\ UNCHANGED conversation_history

\* the end of a get_response call that records and returns a generated text
ReturnGenerated(t, r, text, usage) ==
    /\ conversation_history' =
           [AddMessage(conversation_history, "assistant", text, now)
               EXCEPT !.total_tokens = @ + usage]
    /\ thread' = [thread EXCEPT ![t] = [@ EXCEPT !.pc = "done",
                                                 !.outcome = "ACCEPTED",
                                                 !.result = text]]

\* get_response that answers a failed call by asking the backend once more
OpenAIGetResponseReturn_RetryOnFailure(t, r) ==
    IF ~r.ok
    THEN /\ thread' = [thread EXCEPT ![t] = [@ EXCEPT !.pc = "regenerating", !.calls = @ + 1]]
         /\ UNCHANGED conversation_history
    ELSE LET ai_response == Strip(r.text)
         IN  IF IsResponseRepetitive(conversation_history, ai_response)
             THEN /\ thread' = [thread EXCEPT ![t] = [@ EXCEPT !.pc = "regenerating",
                                                               !.calls = @ + 1]]
                  /\ UNCHANGED conversation_history
             ELSE ReturnGenerated(t, r, ai_response, r.usage)

\* get_response that records the candidate it rejects before it regenerates
OpenAIGetResponseReturn_RecordsRejected(t, r) ==
    IF ~r.ok
    THEN ReturnFallback(t, r, OpenAIFallbackResponses(conversation_history))
    ELSE LET ai_response == Strip(r.text)
         IN  IF IsResponseRepetitive(conversation_history, ai_response)
             THEN /\ thread' = [thread EXCEPT ![t] = [@ EXCEPT !.pc = "regenerating",
                                                               !.calls = @ + 1]]
                  /\ conversation_history' =
                         AddMessage(conversation_history, "assistant", ai_response, now)
             ELSE ReturnGenerated(t, r, ai_response, r.usage)

\* OpenAITutor.get_response from the return of chat.completions.create on
OpenAIGetResponseReturn(t, r) ==
    IF ~r.ok
    THEN ReturnFallback(t, r, OpenAIFallbackResponses(conversation_history))
    ELSE LET ai_response == Strip(r.text)
         IN  IF IsResponseRepetitive(conversation_history, ai_response)
             THEN /\ thread' = [thread EXCEPT ![t] = [@ EXCEPT !.pc = "regenerating",
                                                               !.calls = @ + 1]]
                  /\ UNCHANGED conversation_history
             ELSE ReturnGenerated(t, r, ai_response, r.usage)

\* _generate_alternative_response that checks the regenerated text too and
\* falls back when it is repetitive
GenerateAlternativeResponseReturn_Rechecked(t, r) ==
    IF ~r.ok \/ IsResponseRepetitive(conversation_history, Strip(r.text))
    THEN ReturnFallback(t, r, OpenAIFallbackResponses(conversation_history))
    ELSE ReturnGenerated(t, r, Strip(r.text), r.usage)

\* _generate_alternative_response that hands a repetitive regenerated text
\* back to get_response, which starts the turn's generation over
GenerateAlternativeResponseReturn_StartsOver(t, r) ==
    IF ~r.ok
    THEN ReturnFallback(t, r, OpenAIFallbackResponses(conversation_history))
    ELSE IF IsResponseRepetitive(conversation_history, Strip(r.text))
         THEN /\ thread' = [thread EXCEPT ![t] = [@ EXCEPT !.pc = "calling", !.calls = 1]]
              /\ UNCHANGED conversation_history
         ELSE ReturnGenerated(t, r, Strip(r.text), r.usage)

\* OpenAITutor._generate_alternative_response from the return of its
\* chat.completions.create on
GenerateAlternativeResponseReturn(t, r) ==
    IF ~r.ok
    THEN ReturnFallback(t, r, OpenAIFallbackResponses(conversation_history))
    ELSE ReturnGenerated(t, r, Strip(r.text), r.usage)

RECURSIVE SumWordCounts(_)
\* sum(len(msg.split()) for msg in texts)
SumWordCounts(texts) ==
    IF texts = <<>> THEN 0
    ELSE Len(SplitWords(texts[1])) + SumWordCounts(Tail(texts))

\* OpenAITutor._get_conversation_guidance. The literals are single elements of
\* the text
GetConversationGuidance(h) ==
    LET recent == SelectSeq(LastN(h.messages, 6), LAMBDA msg : msg.role = "user")
        recent_user_messages == [i \in 1..Len(recent) |-> recent[i].content]
        total == SumWordCounts(recent_user_messages)
        length_part ==
            IF recent_user_messages = <<>> THEN <<>>
            ELSE IF total < 5 * Len(recent_user_messages)
            THEN << <<"User gives short responses - ask more specific, engaging questions to encourage longer answers">> >>
            ELSE IF total > 20 * Len(recent_user_messages)
            THEN << <<"User is sharing detailed responses - ask follow-up questions about specific details they mentioned">> >>
            ELSE <<>>
        interests_part ==
            IF h.user_interests # {}
            THEN << <<"Focus on user's interests: ">>
                    \o Join(LastN(InterestList(h), 3), <<", ">>) >>
            ELSE <<>>
        sentiment_part ==
            IF h.last_user_sentiment = "positive"
            THEN << <<"User seems positive - maintain the upbeat energy">> >>
            ELSE IF h.last_user_sentiment = "negative"
            THEN << <<"User seems down - be empathetic and supportive">> >>
            ELSE <<>>
    IN  Join(length_part \o interests_part \o sentiment_part, <<" | ">>)

\* f"{self.system_prompt}\n\nPersonalization context: {personalization}"
EnhancedSystemPrompt(personalization) ==
    OpenAISystemPrompt \o <<"\n", "\n", "Personalization context: ">> \o personalization

\* the messages of the request, rewritten in place and extended as
\* OpenAITutor.get_response does between add_message and the backend call
OpenAIRequestMessages(h) ==
    LET messages        == GetMessages(h, <<15>>)
        personalization == GetPersonalizationContext(h)
        enhanced ==
            IF personalization # <<>> /\ messages # <<>> /\ messages[1].role = "system"
            THEN [messages EXCEPT ![1].content = EnhancedSystemPrompt(personalization)]
            ELSE messages
        guidance        == GetConversationGuidance(h)
    IN  IF guidance # <<>>
        THEN Append(enhanced, [role    |-> "system",
                               content |-> <<"Conversation guidance: ">> \o guidance])
        ELSE enhanced

\* the prompt OllamaTutor.get_response builds: the last 6 messages
OllamaRequestMessages(h) == GetMessages(h, <<6>>)

\* a get_response whose request list holds the stored dictionaries themselves
\* (get_messages returning the last stored messages uncopied): what is written
\* into the request lands in the store
StoreAfterRequest_Aliased(h, request) ==
    LET offset == Len(h.messages) - (IF Len(h.messages) < 15 THEN Len(h.messages) ELSE 15)
    IN  [h EXCEPT !.messages =
            [i \in 1..Len(h.messages) |->
                IF i > offset
                THEN [h.messages[i] EXCEPT !.content = request[i - offset].content]
                ELSE h.messages[i]]]

\* the history get_response leaves once its request is built: get_messages
\* has copied the dictionaries, so the rewritten system message and the
\* guidance message stay in the request
StoreAfterRequest(h, request) == h

TutorPrefix == <<"T","u","t","o","r",":">>

\* OllamaTutor.get_response from the return of requests.post on
OllamaGetResponseReturn(t, r) ==
    IF ~r.ok
    THEN ReturnFallback(t, r, OllamaFallbackResponses)
    ELSE LET stripped    == Strip(r.text)
             ai_response == IF StartsWith(stripped, TutorPrefix)
                            THEN Strip(SubSeq(stripped, Len(TutorPrefix) + 1, Len(stripped)))
                            ELSE stripped
         IN  ReturnGenerated(t, r, ai_response, 0)

(***************************************************************************)
(* AITutorService                                                          *)
(***************************************************************************)
\* AITutorService.get_stats
GetStats ==
    LET history == conversation_history
    IN  [provider       |-> provider,
         total_messages |-> Len(history.messages),
         user_messages  |-> Len(SelectSeq(history.messages, LAMBDA msg : msg.role = "user")),
         ai_messages    |-> Len(SelectSeq(history.messages,
                                          LAMBDA msg : msg.role = "assistant")),
         total_tokens   |-> history.total_tokens,
         session_start  |-> IsoFormat(history.session_start)]

(***************************************************************************)
(* Snapshot files                                                          *)
(***************************************************************************)
\* the conversation of an earlier session, cleared and then one exchange long
EarlierHistory ==
    LET start     == [sec |-> 0, usec |-> 500000]
        cleared   == Clear(NewHistory([sec |-> 0, usec |-> 0]), start)
        asked     == AddMessage(cleared, "user", UserLoveCooking, start)
        answered  == AddMessage(asked, "assistant", RespDoYouCook, start)
    IN  [answered EXCEPT !.total_tokens = 7]

\* the file that session saved
EarlierSnapshot == ConversationData(EarlierHistory, [sec |-> 1, usec |-> 0])

(***************************************************************************)
(* Actions                                                                 *)
(***************************************************************************)
Init ==
    /\ provider \in {"openai", "ollama"}
    /\ now = [sec |-> 0, usec |-> 0]
    /\ conversation_history = NewTutorHistory(provider, now)
    /\ thread = [t \in Threads |-> IdleThread]
    /\ sends = 0

\* the clock half a second later
NextTick(clock) ==
    IF clock.usec = 0 THEN [clock EXCEPT !.usec = 500000]
    ELSE [sec |-> clock.sec + 1, usec |-> 0]

\* a client sends a message: SimpleConversationApp.send_message,
\* ConversationApp.send_text_message / get_ai_response, web_app.chat and
\* web_app.handle_message start a get_response call on a thread of its own
\* (the first free one), whoever the client is and whatever else is running;
\* the call runs up to its backend request: it records the user turn. Half a
\* second has passed since the previous turn was sent
SendMessage(t, c, message) ==
    /\ thread[t].pc = "idle"
    /\ \A u \in Threads : u < t => thread[u].pc # "idle"
    /\ sends < MaxSends
    /\ now' = NextTick(now)
    /\ LET recorded == AddMessage(conversation_history, "user", message, now')
       IN  conversation_history' =
               StoreAfterRequest(recorded, IF provider = "openai"
                                           THEN OpenAIRequestMessages(recorded)
                                           ELSE OllamaRequestMessages(recorded))
    /\ thread' = [thread EXCEPT ![t] = [IdleThread EXCEPT !.pc = "calling", !.calls = 1]]
    /\ sends' = sends + 1
    /\ UNCHANGED provider

\* the first backend call of a turn comes back
GetResponseReturn(t, r) ==
    /\ thread[t].pc = "calling"
    /\ IF provider = "openai"
       THEN OpenAIGetResponseReturn(t, r)
       ELSE OllamaGetResponseReturn(t, r)
    /\ UNCHANGED <<provider, now, sends>>

\* the regeneration call of a turn comes back
AlternativeReturn(t, r) ==
    /\ thread[t].pc = "regenerating"
    /\ GenerateAlternativeResponseReturn(t, r)
    /\ UNCHANGED <<provider, now, sends>>

\* the presentation layer shows the response and the thread ends
Finish(t) ==
    /\ thread[t].pc = "done"
    /\ thread' = [thread EXCEPT ![t] = IdleThread]
    /\ UNCHANGED <<provider, conversation_history, now, sends>>

\* AITutorService.save_conversation: what it returns when the write succeeds
\* (the conversation_data written, standing for its path) or fails (None)
SaveResult(written) ==
    IF written THEN <<ConversationData(conversation_history, now)>> ELSE <<>>

\* AITutorService.save_conversation: the disk is outside the engine, and the
\* engine's state is left alone whether the write succeeds or fails
SaveConversation(written) ==
    /\ SaveResult(written) \in {<<>>, <<ConversationData(conversation_history, now)>>}
    /\ UNCHANGED vars

\* what json.load returns for the file a load is pointed at: the snapshot a
\* save of this session has just written, the snapshot of an earlier session,
\* or that snapshot with its session_start damaged
FileData(kind) ==
    IF kind = "saved_now" THEN ConversationData(conversation_history, now)
    ELSE IF kind = "earlier_session" THEN EarlierSnapshot
    ELSE [EarlierSnapshot EXCEPT !.session_start = MalformedIso]

\* what AITutorService.load_conversation does to the history and returns;
\* a file that cannot be opened or parsed raises before anything is assigned
LoadResult(kind) ==
    IF kind = "unreadable"
    THEN [history |-> conversation_history, returned |-> FALSE]
    ELSE LoadFromData(conversation_history, FileData(kind))

\* AITutorService.load_conversation
LoadConversation(kind) ==
    /\ conversation_history' = LoadResult(kind).history
    /\ UNCHANGED <<provider, now, thread, sends>>

\* AITutorService.clear_conversation
ClearConversation ==
    /\ conversation_history' = Clear(conversation_history, now)
    /\ UNCHANGED <<provider, now, thread, sends>>

Next ==
    \/ \E t \in Threads, c \in Clients, message \in UserTexts : SendMessage(t, c, message)
    \/ \E t \in Threads, r \in BackendOutcomes : GetResponseReturn(t, r)
    \/ \E t \in Threads, r \in BackendOutcomes : AlternativeReturn(t, r)
    \/ \E t \in Threads : Finish(t)
    \/ \E written \in BOOLEAN : SaveConversation(written)
    \/ \E kind \in LoadKinds : LoadConversation(kind)
    \/ ClearConversation

Spec == Init /\ [][Next]_vars

FairSpec ==
    /\ Spec
    /\ \A t \in Threads : WF_vars(\E r \in BackendOutcomes : GetResponseReturn(t, r))
    /\ \A t \in Threads : WF_vars(\E r \in BackendOutcomes : AlternativeReturn(t, r))

(***************************************************************************)
(* ConversationHistory driven through its own interface                    *)
(***************************************************************************)
\* the (role, content) arguments add_message is called with
Turns ==
    {[role |-> "user", content |-> UserCookingTravel],
     [role |-> "user", content |-> UserFavoriteRecipe],
     [role |-> "user", content |-> UserGoodBadBadBad],
     [role |-> "user", content |-> UserBadDay],
     [role |-> "assistant", content |-> RespDoYouCook],
     [role |-> "assistant", content |-> RespElevenQuestions],
     [role |-> "assistant", content |-> RespEmpty],
     [role |-> "system", content |-> OllamaSystemPrompt]}

\* the snapshot files whose load changes the history (a save, the load of the
\* snapshot just saved and a failed read leave it as it is)
HistoryLoadKinds == {"earlier_session", "bad_session_start"}

\* a ConversationHistory of its own, as OllamaTutor.__init__ creates it
HistoryInit ==
    /\ provider = "ollama"
    /\ now = [sec |-> 0, usec |-> 0]
    /\ conversation_history = NewTutorHistory(provider, now)
    /\ thread = [t \in Threads |-> IdleThread]
    /\ sends = 0

\* ConversationHistory.add_message, called by one caller at a time. Half a
\* second has passed since the previous call
AddMessageCall(role, content) ==
    /\ sends < MaxTurns
    /\ now' = NextTick(now)
    /\ conversation_history' = AddMessage(conversation_history, role, content, now')
    /\ sends' = sends + 1
    /\ UNCHANGED <<provider, thread>>

HistoryNext ==
    \/ \E turn \in Turns : AddMessageCall(turn.role, turn.content)
    \/ \E kind \in HistoryLoadKinds : LoadConversation(kind)
    \/ ClearConversation

HistorySpec == HistoryInit /\ [][HistoryNext]_vars

(***************************************************************************)
(* ConversationHistory under the concurrent get_response calls the         *)
(* presentation layer starts                                               *)
(***************************************************************************)
\* the add_message calls of two get_response calls that run at once: one
\* records its user turn while the other records its answer
ConcurrentTurns ==
    {[role |-> "user", content |-> UserLoveCooking],
     [role |-> "assistant", content |-> RespDoYouCook]}

\* add_message up to its message dictionary: the caller (the first free
\* thread) reads the clock and builds the message; nothing is stored yet.
\* Half a second has passed since the previous call
StampMessage(t, role, content) ==
    /\ thread[t].pc = "idle"
    /\ \A u \in Threads : u < t => thread[u].pc # "idle"
    /\ sends < MaxTurns
    /\ now' = NextTick(now)
    /\ thread' = [thread EXCEPT ![t] =
                      [IdleThread EXCEPT !.pc = "stamped",
                                         !.result = [role      |-> role,
                                                     content   |-> content,
                                                     timestamp |-> IsoFormat(now')]]]
    /\ sends' = sends + 1
    /\ UNCHANGED <<provider, conversation_history>>

\* add_message from self.messages.append(message) to its end; no lock is held
\* between the two halves, so another thread's add_message may run in between
AppendMessage(t) ==
    /\ thread[t].pc = "stamped"
    /\ conversation_history' = AppendStamped(conversation_history, thread[t].result, now)
    /\ thread' = [thread EXCEPT ![t] = IdleThread]
    /\ UNCHANGED <<provider, now, sends>>

ConcurrentHistoryNext ==
    \/ \E t \in Threads, turn \in ConcurrentTurns : StampMessage(t, turn.role, turn.content)
    \/ \E t \in Threads : AppendMessage(t)
    \/ \E kind \in HistoryLoadKinds : LoadConversation(kind)
    \/ ClearConversation

ConcurrentHistorySpec == HistoryInit /\ [][ConcurrentHistoryNext]_vars

(***************************************************************************)
(* AITutorService driven through its whole interface                       *)
(***************************************************************************)
RespTutorOnly == <<"T","u","t","o","r",":">>

\* the texts the backend generates, a text with nothing in it and a text with
\* nothing after the "Tutor:" prefix included
ServiceResponses == {RespDoYouCook, RespEmpty, RespTutorOnly}

\* what a backend call comes back with
ServiceOutcomes ==
    {[ok |-> FALSE, text |-> <<>>, usage |-> 0]}
    \cup {[ok |-> TRUE, text |-> r, usage |-> u] : r \in ServiceResponses, u \in Usages}

\* AITutorService.get_response with the tutor available, from the return of
\* tutor.get_response on: `response or self._get_default_response()`, where
\* an empty text is false
ServiceGetResponse(response) ==
    IF response # <<>> THEN response ELSE DefaultResponse

\* the operations that answer a question about the session
QueryKinds ==
    {"is_question_repetitive", "get_personalization_context", "get_conversation_guidance",
     "is_response_repetitive", "get_messages", "get_stats"}

\* the texts and limits the queries are called with
QueryTexts == {RespDoYouCook, UserBadDay}

QueryLimits == {None, <<1>>}

\* what a query returns
QueryReturn(h, kind, text, limit) ==
    CASE kind = "is_question_repetitive"       -> IsQuestionRepetitive(h, text)
      [] kind = "get_personalization_context"  -> GetPersonalizationContext(h)
      [] kind = "get_conversation_guidance"    -> GetConversationGuidance(h)
      [] kind = "is_response_repetitive"       -> IsResponseRepetitive(h, text)
      [] kind = "get_messages"                 -> GetMessages(h, limit)
      [] kind = "get_stats"                    -> GetStats

\* is_question_repetitive that tracks the candidate it is asked about
HistoryAfterQuery_TracksCandidate(h, kind, text, limit) ==
    IF kind = "is_question_repetitive"
    THEN [h EXCEPT !.recent_questions =
             Append(@, [question |-> Lower(text), timestamp |-> h.session_start])]
    ELSE h

\* the history a query leaves: the six operations read the fields of the
\* history and build new lists, strings and dictionaries from them; none
\* assigns a field, and none appends to or removes from a stored list
HistoryAfterQuery(h, kind, text, limit) == h

\* a query is made, between any two steps of the calls that are running; its
\* caller is handed QueryReturn
Query(kind, text, limit) ==
    /\ conversation_history' = HistoryAfterQuery(conversation_history, kind, text, limit)
    /\ UNCHANGED <<provider, now, thread, sends>>

ServiceNext ==
    \/ \E t \in Threads, c \in Clients, message \in UserTexts : SendMessage(t, c, message)
    \/ \E t \in Threads, r \in ServiceOutcomes : GetResponseReturn(t, r)
    \/ \E t \in Threads, r \in ServiceOutcomes : AlternativeReturn(t, r)
    \/ \E t \in Threads : Finish(t)
    \/ ClearConversation
    \/ \E kind \in QueryKinds, text \in QueryTexts, limit \in QueryLimits :
           Query(kind, text, limit)

ServiceSpec == Init /\ [][ServiceNext]_vars

(***************************************************************************)
(* Properties                                                              *)
(***************************************************************************)
\* the content of the last assistant turn of the store: <<>> or <<content>>
LastAssistantTurn(h) ==
    LET turns == SelectSeq(h.messages, LAMBDA msg : msg.role = "assistant")
    IN  IF turns = <<>> THEN <<>> ELSE <<turns[Len(turns)].content>>

\* C1: whenever a get_response call completes (ACCEPTED or FALLBACK_USED), the
\* text it returns is the last assistant turn of the store.
C1_ReturnedTextIsAppended ==
    [][\A t \in Threads :
          thread[t].pc # "done" /\ thread'[t].pc = "done"
          => LastAssistantTurn(conversation_history') = <<thread'[t].result>>]_vars

\* the last n assistant turns of the store
LastAssistantTurns(h, n) ==
    LastN(SelectSeq(h.messages, LAMBDA msg : msg.role = "assistant"), n)

\* the rejection rule as stated: similarity above 0.6 with one of the last 3
\* assistant turns, or a question of the candidate trips the repetition guard
GateRejects(h, candidate) ==
    \/ \E i \in 1..Len(LastAssistantTurns(h, 3)) :
           Exceeds(CalculateSimilarity(Lower(candidate),
                                       Lower(LastAssistantTurns(h, 3)[i].content)), 60)
    \/ \E i \in 1..Len(ExtractQuestions(candidate)) :
           IsQuestionRepetitive(h, ExtractQuestions(candidate)[i])

\* C2: while a candidate is awaited, every candidate that the stated rule
\* rejects is found repetitive by the gate, whatever turns the store holds
\* after the tutor's system prompt.
C2_GateRejectsSimilarCandidate ==
    (/\ provider = "openai"
     /\ \E t \in Threads : thread[t].pc = "calling"
     /\ conversation_history.messages # <<>>
     /\ conversation_history.messages[1].role = "system")
    => \A candidate \in Responses :
           GateRejects(conversation_history, Strip(candidate))
           => IsResponseRepetitive(conversation_history, Strip(candidate))

\* C3: a rejection issues one regeneration request (the second and last
\* backend call of the turn), and whatever the regeneration generates is
\* recorded and returned with no further check.
C3_OneRegenerationUnchecked ==
    [][\A t \in Threads :
          /\ thread'[t].calls <= 2
          /\ (thread[t].pc = "calling" /\ thread'[t].pc = "regenerating"
              => thread'[t].calls = thread[t].calls + 1)
          /\ (thread[t].pc = "regenerating" /\ thread'[t] # thread[t]
              => thread'[t].pc = "done" /\ thread'[t].calls = thread[t].calls)
          /\ \A r \in BackendOutcomes :
                 r.ok /\ AlternativeReturn(t, r)
                 => /\ thread'[t].outcome = "ACCEPTED"
                    /\ thread'[t].result = Strip(r.text)
                    /\ LastAssistantTurn(conversation_history') = <<Strip(r.text)>>]_vars

\* a regenerated text that repeats a tracked question was accepted
C3_Witness ==
    \E t \in Threads :
        /\ thread[t].pc = "done"
        /\ thread[t].calls = 2
        /\ thread[t].outcome = "ACCEPTED"
        /\ thread[t].result = RespDoYouCook
        /\ Cardinality({i \in 1..Len(conversation_history.recent_questions) :
               conversation_history.recent_questions[i].question = Lower(RespDoYouCook)}) >= 2

\* C4 as stated: a completed call ended in ACCEPTED or FALLBACK_USED, and
\* FALLBACK_USED only with the retry budget (one regeneration) used up.
C4_FallbackOnlyAfterRetry ==
    \A t \in Threads :
        thread[t].pc = "done"
        => /\ thread[t].outcome \in {"ACCEPTED", "FALLBACK_USED"}
           /\ thread[t].outcome = "FALLBACK_USED" => thread[t].calls = 2

\* C4 (amended): every get_response call whose backend calls come back ends,
\* in ACCEPTED or FALLBACK_USED, and it ends in FALLBACK_USED exactly when a
\* backend call of the turn failed, the first one included.
C4_TerminatesAcceptedOrFallback ==
    /\ \A t \in Threads :
           thread[t].pc \in {"calling", "regenerating"} ~> thread[t].pc = "done"
    /\ [][\A t \in Threads :
             thread[t].pc # "done" /\ thread'[t].pc = "done"
             => /\ thread'[t].outcome \in {"ACCEPTED", "FALLBACK_USED"}
                /\ \A r \in BackendOutcomes :
                       GetResponseReturn(t, r) \/ AlternativeReturn(t, r)
                       => (thread'[t].outcome = "FALLBACK_USED" <=> ~r.ok)]_vars

\* the first backend call failed and the turn fell back with no regeneration
C4_Witness ==
    \E t \in Threads :
        thread[t].pc = "done" /\ thread[t].outcome = "FALLBACK_USED" /\ thread[t].calls = 1

\* the canned texts of both tutors
CannedResponses ==
    {FallbackCooking, FallbackTravel, FallbackMusic}
    \cup Range(FallbacksPositive) \cup Range(FallbacksNegative)
    \cup Range(FallbacksNeutral) \cup Range(creative_fallbacks)

\* C5: a backend call that fails ends the turn at once: no further call is
\* made, nothing is recorded, and a canned fallback is returned.
C5_FailedCallNotRetried ==
    [][\A t \in Threads, r \in BackendOutcomes :
          ~r.ok /\ (GetResponseReturn(t, r) \/ AlternativeReturn(t, r))
          => /\ thread'[t].pc = "done"
             /\ thread'[t].outcome = "FALLBACK_USED"
             /\ thread'[t].calls = thread[t].calls
             /\ thread'[t].result \in CannedResponses
             /\ conversation_history' = conversation_history]_vars

\* the regeneration call failed and the turn fell back after two calls
C5_Witness ==
    \E t \in Threads :
        thread[t].pc = "done" /\ thread[t].outcome = "FALLBACK_USED" /\ thread[t].calls = 2

\* C6: a load that returns False, and a save that returns None, leave the
\* turns, total_tokens and session_start as they were.
C6_FailedPersistenceLeavesState ==
    [][/\ \A kind \in LoadKinds :
             LoadConversation(kind) /\ ~LoadResult(kind).returned
             => /\ conversation_history'.messages = conversation_history.messages
                /\ conversation_history'.total_tokens = conversation_history.total_tokens
                /\ conversation_history'.session_start = conversation_history.session_start
       /\ SaveConversation(FALSE) /\ SaveResult(FALSE) = <<>>
          => conversation_history' = conversation_history]_vars

\* C7: the snapshot a save writes, loaded into this session, a cleared session
\* or another session, gives back the same turns, total_tokens and
\* session_start, and the load returns True.
C7_SaveLoadRoundTrip ==
    LET h    == conversation_history
        data == ConversationData(h, now)
    IN  \A target \in {h, Clear(h, now), EarlierHistory} :
            LET loaded == LoadFromData(target, data)
            IN  /\ loaded.returned
                /\ loaded.history.messages = h.messages
                /\ loaded.history.total_tokens = h.total_tokens
                /\ loaded.history.session_start = h.session_start

\* a session with turns, tokens and a session_start that has a fraction
C7_Witness ==
    /\ Len(conversation_history.messages) >= 2
    /\ conversation_history.total_tokens > 0
    /\ conversation_history.session_start.usec # 0
    /\ Len(ConversationData(conversation_history, now).session_start) = 2

\* C8: after clear() the session has no turn, no interest, no tracked
\* question, no tokens and a neutral sentiment.
C8_ClearResetsSession ==
    [][ClearConversation
       => /\ Len(conversation_history'.messages) = 0
          /\ conversation_history'.user_interests = {}
          /\ conversation_history'.recent_questions = <<>>
          /\ conversation_history'.total_tokens = 0
          /\ conversation_history'.last_user_sentiment = "neutral"]_vars

\* a session cleared after its second user turn, while a response is pending
C8_Witness ==
    /\ sends >= 2
    /\ conversation_history = Clear(conversation_history, now)
    /\ \E t \in Threads : thread[t].pc = "calling"

\* C9: at most one generation is in flight at any time.
C9_AtMostOneInFlight ==
    Cardinality({t \in Threads : thread[t].pc \in {"calling", "regenerating"}}) <= 1

\* what a client is shown of the conversation: web_app.chat, handle_message
\* and get_stats read the one module-level ai_service
ClientView(client) == GetStats

\* C10: a turn sent by one client changes nothing of what another client sees.
C10_ClientsDoNotShareState ==
    [][\A c \in Clients :
          (\E t \in Threads, message \in UserTexts : SendMessage(t, c, message))
          => \A d \in Clients \ {c} : ClientView(d)' = ClientView(d)]_vars

\* C11: the recent-questions window never holds more than 10 entries.
C11_WindowWithinCap ==
    Len(conversation_history.recent_questions) <= RecentQuestionsCap

\* the window is full and its oldest entries were evicted: the eleven
\* questions of one assistant turn came after an earlier tracked question
C11_Witness ==
    /\ Len(conversation_history.recent_questions) = RecentQuestionsCap
    /\ \E i, j \in 1..Len(conversation_history.messages) :
           /\ i < j
           /\ conversation_history.messages[i].content = RespDoYouCook
           /\ conversation_history.messages[j].content = RespElevenQuestions
    /\ \A i \in 1..RecentQuestionsCap :
           conversation_history.recent_questions[i].question # Lower(RespDoYouCook)

\* C12: clear() leaves the interest set empty, every other operation leaves it
\* a superset of what it was, and so no step removes part of the set.
C12_InterestsGrowOrAreCleared ==
    [][/\ ClearConversation => conversation_history'.user_interests = {}
       /\ (\/ \E turn \in Turns : AddMessageCall(turn.role, turn.content)
           \/ \E kind \in HistoryLoadKinds : LoadConversation(kind))
          => conversation_history.user_interests \subseteq conversation_history'.user_interests
       /\ \/ conversation_history.user_interests \subseteq conversation_history'.user_interests
          \/ conversation_history'.user_interests = {}]_vars

\* two interests were collected, a later user turn that names one of them was
\* recorded, and a snapshot was loaded over the turns: the set is still whole
C12_Witness ==
    /\ conversation_history.user_interests = {"cooking", "travel"}
    /\ conversation_history.messages = EarlierHistory.messages
    /\ sends >= 2

\* C13: the sentiment label is neutral in a new session, is always one of
\* positive, neutral, negative, and is neutral right after clear().
C13_SentimentLabel ==
    /\ conversation_history.last_user_sentiment = "neutral"
    /\ [](conversation_history.last_user_sentiment \in {"positive", "neutral", "negative"})
    /\ [][ClearConversation
          => conversation_history'.last_user_sentiment = "neutral"]_vars

\* a session cleared after two add_message calls: no turn is left, the
\* session starts now and the label is neutral
C13_Witness ==
    /\ sends >= 2
    /\ conversation_history.messages = <<>>
    /\ conversation_history.session_start = now
    /\ conversation_history.last_user_sentiment = "neutral"

\* whether the time of one isoformat text is not after the time of another
IsoNotAfter(a, b) ==
    LET x == FromIsoFormat(a)
        y == FromIsoFormat(b)
    IN  x.sec < y.sec \/ (x.sec = y.sec /\ x.usec <= y.usec)

\* C14: the timestamps of the stored turns are non-decreasing along the store.
C14_TimestampsNonDecreasing ==
    \A i, j \in 1..Len(conversation_history.messages) :
        i < j => IsoNotAfter(conversation_history.messages[i].timestamp,
                             conversation_history.messages[j].timestamp)

\* whether the turns of one store are the first turns of another, unchanged
IsPrefix(before, after) ==
    Len(before) <= Len(after) /\ SubSeq(after, 1, Len(before)) = before

\* C15: every step of a get_response call (a step that changes a thread)
\* leaves each stored turn where and as it was and appends at most one turn;
\* recording the user turn (the step that counts a send) appends exactly that
\* turn, stamped with the current time.
C15_AppendOnlyStore ==
    [][/\ sends' # sends
          => \E message \in UserTexts :
                 conversation_history'.messages =
                     Append(conversation_history.messages,
                            [role |-> "user", content |-> message,
                             timestamp |-> IsoFormat(now')])
       /\ thread' # thread
          => /\ IsPrefix(conversation_history.messages, conversation_history'.messages)
             /\ Len(conversation_history'.messages)
                    <= Len(conversation_history.messages) + 1]_vars

\* a backend call is pending whose request carries a rewritten system message
\* and a guidance message, while the store keeps the system prompt as it was
C15_Witness ==
    /\ provider = "openai"
    /\ \E t \in Threads : thread[t].pc = "calling"
    /\ conversation_history.messages[1].content = OpenAISystemPrompt
    /\ LET request == OpenAIRequestMessages(conversation_history)
       IN  /\ Len(request) = Len(conversation_history.messages) + 1
           /\ Len(request[1].content) > Len(OpenAISystemPrompt)
           /\ request[Len(request)].role = "system"

\* the token set of a text: its whitespace-separated words
TokenSet(text) == Range(SplitWords(text))

\* the texts similarity is asked about: the contents of the stored turns
StoredContents == {conversation_history.messages[i].content :
                      i \in 1..Len(conversation_history.messages)}

\* the stored contents, each with its token set
StoredTexts == {[text |-> content, tokens |-> TokenSet(content)] : content \in StoredContents}

\* C16 as stated: similarity is 0 for texts with disjoint non-empty token
\* sets and 1 for every pair of identical texts.
C16_SimilarityZeroOrOne ==
    \A a, b \in StoredTexts :
        LET similarity == CalculateSimilarity(a.text, b.text)
        IN  /\ (a.tokens # {} /\ b.tokens # {} /\ a.tokens \cap b.tokens = {})
               => similarity[1] = 0
            /\ a.text = b.text => similarity[1] = similarity[2]

\* C16 (amended): similarity is 0 for texts with disjoint non-empty token
\* sets, 0 when either text has no token, and 1 for identical texts that
\* have a token.
C16_SimilarityOfTokenSets ==
    \A a, b \in StoredTexts :
        LET similarity == CalculateSimilarity(a.text, b.text)
        IN  /\ (a.tokens # {} /\ b.tokens # {} /\ a.tokens \cap b.tokens = {})
               => similarity[1] = 0
            /\ (a.tokens = {} \/ b.tokens = {}) => similarity[1] = 0
            /\ (a.text = b.text /\ a.tokens # {}) => similarity[1] = similarity[2]

\* the store holds a text twice, a text with no token in common with it, and
\* a text with no token at all
C16_Witness ==
    /\ \E i, j \in 1..Len(conversation_history.messages) :
           /\ i # j
           /\ conversation_history.messages[i].content = RespDoYouCook
           /\ conversation_history.messages[j].content = RespDoYouCook
    /\ UserBadDay \in StoredContents
    /\ RespEmpty \in StoredContents
    /\ CalculateSimilarity(RespDoYouCook, UserBadDay)[1] = 0

AskDoYouTravel ==
    <<"D","o"," ","y","o","u"," ","t","r","a","v","e","l","?">>

AskSoDoYouCook ==
    <<"S","o"," ","d","o"," ","y","o","u"," ","c","o","o","k","?">>

\* the candidates is_question_repetitive is asked about
QuestionCandidates ==
    {RespDoYouCook, AskDoYouTravel, AskSoDoYouCook, UserBadDay, RespEmpty, <<"K","?">>}

\* whether the Jaccard index of two token sets is above 0.7
JaccardAboveSeventy(tokens_a, tokens_b) ==
    /\ tokens_a # {}
    /\ tokens_b # {}
    /\ 10 * Cardinality(tokens_a \cap tokens_b) > 7 * Cardinality(tokens_a \cup tokens_b)

\* C17: is_question_repetitive is true for a candidate identical to a question
\* of the window, false for a candidate that shares no token with any question
\* of the window, and true exactly when the Jaccard index of the lower-cased
\* candidate and some question of the window is above 0.7.
C17_RepetitionGuard ==
    LET window         == conversation_history.recent_questions
        tracked        == {window[i].question : i \in 1..Len(window)}
        tracked_tokens == {TokenSet(question) : question \in tracked}
    IN  \A candidate \in QuestionCandidates :
            LET tokens == TokenSet(Lower(candidate))
                result == IsQuestionRepetitive(conversation_history, candidate)
            IN  /\ Lower(candidate) \in tracked => result
                /\ (\A entry \in tracked_tokens : tokens \cap entry = {}) => ~result
                /\ result <=> \E entry \in tracked_tokens : JaccardAboveSeventy(tokens, entry)

\* the window holds "do you cook?": the same question and a question that
\* adds one word to it are repetitive, a question that shares two of its three
\* words and a text that shares none are not
C17_Witness ==
    /\ \E i \in 1..Len(conversation_history.recent_questions) :
           conversation_history.recent_questions[i].question = Lower(RespDoYouCook)
    /\ Len(conversation_history.recent_questions) >= 2
    /\ IsQuestionRepetitive(conversation_history, RespDoYouCook)
    /\ IsQuestionRepetitive(conversation_history, AskSoDoYouCook)
    /\ ~IsQuestionRepetitive(conversation_history, AskDoYouTravel)
    /\ ~IsQuestionRepetitive(conversation_history, UserBadDay)

\* the limits get_messages is called with: none, 0, and limits below, at and
\* above the size of the store
Limits == {None, <<0>>, <<1>>, <<2>>, <<5>>}

\* the stored turns without their timestamps
StrippedTurns ==
    [i \in 1..Len(conversation_history.messages) |->
        [role    |-> conversation_history.messages[i].role,
         content |-> conversation_history.messages[i].content]]

\* C18: get_messages returns the last `limit` turns, in order and without
\* timestamps, for every limit that is given, and all turns when none is.
C18_RecentReturnsLastLimit ==
    \A limit \in Limits :
        GetMessages(conversation_history, limit) =
            IF limit = None \/ limit[1] >= Len(StrippedTurns) THEN StrippedTurns
            ELSE SubSeq(StrippedTurns, Len(StrippedTurns) - limit[1] + 1, Len(StrippedTurns))

\* whether the store holds exactly the given user turns, in order
StoreHoldsUserTurns(contents) ==
    /\ Len(conversation_history.messages) = Len(contents)
    /\ \A i \in 1..Len(contents) :
           /\ conversation_history.messages[i].role = "user"
           /\ conversation_history.messages[i].content = contents[i]

\* C19 as stated: with "I love cooking and travel" and then "What's your
\* favorite recipe?" recorded, the interests are {cooking, travel} and the
\* sentiment is positive.
C19_ScenarioSentimentStaysPositive ==
    (sends = 2 /\ StoreHoldsUserTurns(<<UserCookingTravel, UserFavoriteRecipe>>))
    => /\ conversation_history.user_interests = {"cooking", "travel"}
       /\ conversation_history.last_user_sentiment = "positive"

\* C19 (amended): with "I love cooking and travel" recorded the interests are
\* {cooking, travel} and the sentiment is positive; with "What's your favorite
\* recipe?" recorded after it the interests are the same and the sentiment is
\* neutral.
C19_ScenarioSentimentFollowsLastTurn ==
    /\ (sends = 1 /\ StoreHoldsUserTurns(<<UserCookingTravel>>))
       => /\ conversation_history.user_interests = {"cooking", "travel"}
          /\ conversation_history.last_user_sentiment = "positive"
    /\ (sends = 2 /\ StoreHoldsUserTurns(<<UserCookingTravel, UserFavoriteRecipe>>))
       => /\ conversation_history.user_interests = {"cooking", "travel"}
          /\ conversation_history.last_user_sentiment = "neutral"

\* the two user turns of the scenario are recorded
C19_Witness ==
    sends = 2 /\ StoreHoldsUserTurns(<<UserCookingTravel, UserFavoriteRecipe>>)

\* the number of places of a text where a word occurs
Occurrences(text, word) ==
    Cardinality({i \in 1..(Len(text) - Len(word) + 1) :
                    SubSeq(text, i, i + Len(word) - 1) = word})

RECURSIVE SumOccurrences(_, _)
\* the occurrences of the words of a list in a text, added up
SumOccurrences(text, words) ==
    IF words = <<>> THEN 0
    ELSE Occurrences(text, words[1]) + SumOccurrences(text, Tail(words))

\* the label of a text by the occurrences of the positive and negative words
LabelByOccurrences(content) ==
    LET positive_count == SumOccurrences(Lower(content), positive_words)
        negative_count == SumOccurrences(Lower(content), negative_words)
    IN  IF positive_count > negative_count THEN "positive"
        ELSE IF negative_count > positive_count THEN "negative"
        ELSE "neutral"

\* C20: after a user turn is recorded the sentiment is the label of that turn
\* by the occurrences of the positive and of the negative words in it.
C20_SentimentByOccurrences ==
    [][\A turn \in Turns :
          turn.role = "user" /\ AddMessageCall(turn.role, turn.content)
          => conversation_history'.last_user_sentiment = LabelByOccurrences(turn.content)]_vars

\* C21: the text AITutorService.get_response hands back for a completed call
\* is never the "trouble connecting to the AI service" message, whatever the
\* backend came back with, an empty generated text included.
C21_FailureNeverSurfaced ==
    \A t \in Threads :
        thread[t].pc = "done" => ServiceGetResponse(thread[t].result) # DefaultResponse

\* the turn an add_message call has just appended
AppendedTurn == conversation_history'.messages[Len(conversation_history'.messages)]

\* C22: a user turn leaves the recent-questions window as it was, an assistant
\* turn leaves the interests and the sentiment as they were, and a system turn
\* leaves all three as they were.
C22_SignalsKeyedOnRole ==
    [][sends' # sends
       => /\ AppendedTurn.role = "user"
             => conversation_history'.recent_questions = conversation_history.recent_questions
          /\ AppendedTurn.role = "assistant"
             => /\ conversation_history'.user_interests = conversation_history.user_interests
                /\ conversation_history'.last_user_sentiment
                       = conversation_history.last_user_sentiment
          /\ AppendedTurn.role = "system"
             => /\ conversation_history'.recent_questions
                       = conversation_history.recent_questions
                /\ conversation_history'.user_interests = conversation_history.user_interests
                /\ conversation_history'.last_user_sentiment
                       = conversation_history.last_user_sentiment]_vars

\* a user turn with a question mark, an assistant turn and a system turn were
\* recorded after a negative user turn: the window holds the assistant's
\* question only, and the signals of the user turns are in place
C22_Witness ==
    /\ Len(conversation_history.messages) = 4
    /\ conversation_history.messages[1].content = UserBadDay
    /\ conversation_history.messages[2].content = UserFavoriteRecipe
    /\ conversation_history.messages[3].content = RespDoYouCook
    /\ conversation_history.messages[4].role = "system"
    /\ Len(conversation_history.recent_questions) = 1
    /\ conversation_history.user_interests = {"cooking"}
    /\ conversation_history.last_user_sentiment = "neutral"

\* the segments of a text between its question marks
QuestionSegments(content) == SplitOn(content, "?")

\* one entry per non-empty segment, the segment as it stands plus "?"
EntriesOfSegments(content, clock) ==
    LET kept == SelectSeq(QuestionSegments(content), LAMBDA segment : segment # <<>>)
    IN  [i \in 1..Len(kept) |->
            [question |-> Lower(kept[i] \o <<"?">>), timestamp |-> clock]]

\* one entry per segment that is not blank, the segment without the white
\* space around it plus "?"
EntriesOfTrimmedSegments(content, clock) ==
    LET kept == SelectSeq(QuestionSegments(content), LAMBDA segment : Strip(segment) # <<>>)
    IN  [i \in 1..Len(kept) |->
            [question |-> Lower(Strip(kept[i]) \o <<"?">>), timestamp |-> clock]]

\* C23 as stated: after an assistant turn with a "?" the window is the last 10
\* of the old window followed by one lower-cased entry, segment plus "?", per
\* non-empty segment of the turn split on "?"; without a "?" it is unchanged.
C23_WindowFifoOfSegments ==
    [][(sends' # sends /\ AppendedTurn.role = "assistant")
       => conversation_history'.recent_questions =
              IF Contains(AppendedTurn.content, <<"?">>)
              THEN LastN(conversation_history.recent_questions
                             \o EntriesOfSegments(AppendedTurn.content, now'),
                         RecentQuestionsCap)
              ELSE conversation_history.recent_questions]_vars

\* C23 (amended): after an assistant turn with a "?" the window is the last 10
\* of the old window followed, in text order, by one lower-cased entry per
\* segment of the turn split on "?" that is not blank, each entry being the
\* segment without the white space around it plus "?"; without a "?" the
\* window is unchanged.
C23_WindowFifoOfTrimmedSegments ==
    [][(sends' # sends /\ AppendedTurn.role = "assistant")
       => conversation_history'.recent_questions =
              IF Contains(AppendedTurn.content, <<"?">>)
              THEN LastN(conversation_history.recent_questions
                             \o EntriesOfTrimmedSegments(AppendedTurn.content, now'),
                         RecentQuestionsCap)
              ELSE conversation_history.recent_questions]_vars

\* eleven questions were pushed onto a window that held one: the oldest two
\* entries are gone and the rest is in text order
C23_Witness ==
    LET window == conversation_history.recent_questions
    IN  /\ Len(conversation_history.messages) = 2
        /\ conversation_history.messages[1].content = RespDoYouCook
        /\ conversation_history.messages[2].content = RespElevenQuestions
        /\ Len(window) = RecentQuestionsCap
        /\ window[1].question = <<"b", "?">>
        /\ window[2].question = <<"c", "?">>
        /\ window[RecentQuestionsCap].question = <<"k", "?">>
        /\ window[1].timestamp = now

\* the pool the stated priority selects from: the line of the first of
\* cooking, travel and music among the interests, else the pool of a positive
\* or negative sentiment, else a generic pool
PoolByPriority(h) ==
    IF "cooking" \in h.user_interests THEN {FallbackCooking}
    ELSE IF "travel" \in h.user_interests THEN {FallbackTravel}
    ELSE IF "music" \in h.user_interests THEN {FallbackMusic}
    ELSE IF h.last_user_sentiment = "positive" THEN Range(FallbacksPositive)
    ELSE IF h.last_user_sentiment = "negative" THEN Range(FallbacksNegative)
    ELSE Range(FallbacksNeutral) \cup Range(creative_fallbacks)

\* C24: the canned text a call falls back to is taken from the pool that the
\* priority over the session signals selects: interest line, else sentiment
\* pool, else generic pool.
C24_FallbackByPriority ==
    [][\A t \in Threads :
          (/\ thread[t].pc # "done"
           /\ thread'[t].pc = "done"
           /\ thread'[t].outcome = "FALLBACK_USED")
          => thread'[t].result \in PoolByPriority(conversation_history)]_vars

\* the messages a get_response call sends to the backend for a history
RequestMessages(h) ==
    IF provider = "openai" THEN OpenAIRequestMessages(h) ELSE OllamaRequestMessages(h)

\* whether a message of the request sent for a history holds the
\* personalization context of that history, when there is one
CarriesContext(h) ==
    LET personalization == GetPersonalizationContext(h)
        request         == RequestMessages(h)
    IN  personalization # <<>>
        => \E i \in 1..Len(request) : Contains(request[i].content, personalization)

\* C25: whenever a get_response call has recorded its user turn and the
\* personalization context of the session is not empty, a message of the
\* request it sends holds that context.
C25_RequestCarriesContext ==
    [][sends' # sends => CarriesContext(conversation_history')]_vars

\* C26: under either backend, a first candidate that the acceptance gate
\* finds repetitive is not accepted: the call that receives it goes on to a
\* regeneration.
C26_GateUnderBothBackends ==
    [][\A t \in Threads :
          (/\ thread[t].pc = "calling"
           /\ thread'[t].pc = "done"
           /\ thread'[t].outcome = "ACCEPTED")
          => ~IsResponseRepetitive(conversation_history, thread'[t].result)]_vars

\* C27: the step that rejects a candidate leaves the session as it was; a
\* send appends one user turn; every other step of a call appends nothing, or
\* is the end of the call and appends the one assistant turn it returns, whose
\* questions are the only ones pushed onto the window.
C27_RejectedCandidateLeavesNoTrace ==
    [][/\ \A t \in Threads :
             thread[t].pc = "calling" /\ thread'[t].pc = "regenerating"
             => conversation_history' = conversation_history
       /\ sends' # sends
          => /\ Len(conversation_history'.messages) = Len(conversation_history.messages) + 1
             /\ IsPrefix(conversation_history.messages, conversation_history'.messages)
             /\ AppendedTurn.role = "user"
       /\ (sends' = sends /\ thread' # thread)
          => \/ /\ conversation_history'.messages = conversation_history.messages
                /\ conversation_history'.recent_questions
                       = conversation_history.recent_questions
             \/ \E t \in Threads :
                    /\ thread[t].pc \in {"calling", "regenerating"}
                    /\ thread'[t].pc = "done"
                    /\ thread'[t].outcome = "ACCEPTED"
                    /\ conversation_history'.messages =
                           Append(conversation_history.messages,
                                  [role      |-> "assistant",
                                   content   |-> thread'[t].result,
                                   timestamp |-> IsoFormat(now)])
                    /\ conversation_history'.recent_questions =
                           TrackAIQuestions(conversation_history.recent_questions,
                                            thread'[t].result, now)]_vars

\* "Do you cook?" was accepted in the first turn, rejected as a repetition in
\* the second, and the regeneration came back empty: the store holds one
\* assistant turn per user turn and the window holds the question once
C27_Witness ==
    /\ provider = "openai"
    /\ \E t \in Threads :
           /\ thread[t].pc = "done"
           /\ thread[t].calls = 2
           /\ thread[t].outcome = "ACCEPTED"
           /\ thread[t].result = RespEmpty
    /\ Len(conversation_history.messages) = 5
    /\ conversation_history.messages[3].content = RespDoYouCook
    /\ conversation_history.messages[4].role = "user"
    /\ conversation_history.messages[5].content = RespEmpty
    /\ Len(conversation_history.recent_questions) = 1

ReportedUsage == CHOOSE u \in Usages : TRUE

\* the backend calls of a call that has ended that succeeded: all of them when
\* a generated text was returned, all but the last when the call fell back
SucceededCalls(call) ==
    IF call.outcome = "ACCEPTED" THEN call.calls ELSE call.calls - 1

\* C29: when a turn of the OpenAI tutor ends, total_tokens grows by the
\* reported usage of every backend call of the turn that succeeded, the call
\* whose candidate was rejected included, and by nothing when all calls failed.
C29_TokensCountEverySuccessfulCall ==
    [][\A t \in Threads :
          (/\ provider = "openai"
           /\ thread[t].pc \in {"calling", "regenerating"}
           /\ thread'[t].pc = "done")
          => conversation_history'.total_tokens =
                 conversation_history.total_tokens
                     + ReportedUsage * SucceededCalls(thread'[t])]_vars

\* the number of turns of a role among the first n turns of the store
TurnsOfRole(role, n) ==
    Cardinality({i \in 1..n : conversation_history.messages[i].role = role})

\* C30: the store never holds an assistant turn that answers a user turn which
\* is no longer in it: up to every turn of the store there are at least as
\* many user turns as assistant turns, also when a clear came while a
\* generation was in flight.
C30_ClearNotUndoneByPendingGeneration ==
    \A n \in 1..Len(conversation_history.messages) :
        TurnsOfRole("assistant", n) <= TurnsOfRole("user", n)

=============================================================================
